---- MODULE Spec2Model ----
(***************************************************************************)
(* A model of boa's object module (Object, ObjectBuilder,                  *)
(* ConstructorBuilder), of the older builders kept in the builtins module, *)
(* of the aggregate initializer builtins::init and of the RangeError,      *)
(* ReferenceError and SyntaxError built-ins.                               *)
(*                                                                         *)
(* The heap is a sequence of Objects; a handle (GcObject) is an index into *)
(* it, so that cloning a handle yields the same object.                    *)
(***************************************************************************)
EXTENDS Integers, Sequences, FiniteSets, TLC

VARIABLES
    heap,      \* the objects allocated so far, addressed by handle
    pc,        \* "init", "ready", "builder", "objbuilder", "error", "factory", "done", "panic"
    idx,       \* position of init's for loop in globals2
    step,      \* position inside the current entry's init (its builder chain)
    result,    \* the (name, value, attribute) tuple the current entry's init returned
    b,         \* the ConstructorBuilder in scope
    ob,        \* the ObjectBuilder in scope
    this,      \* the `this` value of the native call in progress
    ret,       \* the Result<Value> of the last native call
    calls,     \* number of operations made in the current session
    attached,  \* handles of the function objects the builders attached (history)
    last,      \* the last operation that ran, with what it consumed (history)
    returned,  \* the tuples the entries' inits returned so far, in order (history)
    borrowed   \* handles of the objects whose exclusive borrow is held

vars ==
    <<heap, pc, idx, step, result, b, ob, this, ret, calls, attached, last,
      returned, borrowed>>

(***************************************************************************)
(* Bounds of the exploration.                                              *)
(***************************************************************************)
MaxCalls == 3      \* builder calls (build included) in a free builder session
MaxObjects == 2    \* Object factory / set_prototype_instance calls in a session

(***************************************************************************)
(* Values.                                                                 *)
(***************************************************************************)
Null == [t |-> "null", id |-> 0, s |-> ""]
Undefined == [t |-> "undefined", id |-> 0, s |-> ""]
SymV == [t |-> "symbol", id |-> 0, s |-> ""]
ObjV(i) == [t |-> "object", id |-> i, s |-> ""]
StrV(str) == [t |-> "string", id |-> 0, s |-> str]
NumV(n) == [t |-> "number", id |-> n, s |-> ""]

is_null(v) == v.t = "null"
is_object(v) == v.t = "object"

(***************************************************************************)
(* Attribute: the set of the flags that are on.  READONLY, NON_ENUMERABLE  *)
(* and PERMANENT are the absence of the flag they negate.                  *)
(***************************************************************************)
WRITABLE == {"W"}
READONLY == {}
ENUMERABLE == {"E"}
NON_ENUMERABLE == {}
CONFIGURABLE == {"C"}
PERMANENT == {}
AttributeAll == {"W", "E", "C"}

data_descriptor(value, attribute) == [value |-> value, attribute |-> attribute]

(***************************************************************************)
(* ObjectData and Function.                                                *)
(***************************************************************************)
Data(tag, payload) ==
    [tag |-> tag, callable |-> FALSE, constructable |-> FALSE, payload |-> payload]

from_parameters(callable, constructable) ==
    [callable |-> callable, constructable |-> constructable]

FlagsCALLABLE == [callable |-> TRUE, constructable |-> FALSE]

FunctionBuiltIn(native, flags) ==
    [tag |-> "Function", callable |-> flags.callable,
     constructable |-> flags.constructable, payload |-> native]

(***************************************************************************)
(* Object and its factories.                                               *)
(***************************************************************************)
NoProps == [k \in {} |-> data_descriptor(Undefined, {})]

ObjectDefault ==
    [data |-> Data("Ordinary", ""), props |-> NoProps,
     prototype |-> Null, extensible |-> TRUE]

ObjectNew == ObjectDefault

ObjectFunction(function, prototype) ==
    [data |-> function, props |-> NoProps,
     prototype |-> prototype, extensible |-> TRUE]

ObjectCreate(proto) == [ObjectDefault EXCEPT !.prototype = proto]

ObjectBoolean(value) == [ObjectDefault EXCEPT !.data = Data("Boolean", value)]
ObjectNumber(value) == [ObjectDefault EXCEPT !.data = Data("Number", value)]
ObjectString(value) == [ObjectDefault EXCEPT !.data = Data("String", value)]
ObjectBigInt(value) == [ObjectDefault EXCEPT !.data = Data("BigInt", value)]
ObjectNative(type) == [ObjectDefault EXCEPT !.data = Data("NativeObject", type)]

\* insert / insert_property: the entry is replaced wholesale
Insert(o, key, property) ==
    [o EXCEPT !.props = [k \in (DOMAIN o.props) \cup {key} |->
                            IF k = key THEN property ELSE o.props[k]]]

insert_property(o, key, value, attribute) ==
    Insert(o, key, data_descriptor(value, attribute))

\* an assertion that lets every value through
PrototypeOkAny(prototype) == TRUE

\* the assertion of set_prototype_instance and of ConstructorBuilder::inherit
PrototypeOk(prototype) == is_null(prototype) \/ is_object(prototype)

set_prototype_instance(o, prototype) == [o EXCEPT !.prototype = prototype]

ObjectWithPrototype(proto, data) ==
    set_prototype_instance([ObjectDefault EXCEPT !.data = data], proto)

\* a test that takes every function object for callable
is_callableAnyFunction(o) == o.data.tag = "Function"

is_callable(o) == o.data.tag = "Function" /\ o.data.callable
is_constructable(o) == o.data.tag = "Function" /\ o.data.constructable

HasOwn(o, key) == key \in DOMAIN o.props

\* the Rust type of the payload an ObjectData variant holds; for NativeObject
\* the type of the boxed value, which as_any() compares exactly
PayloadType(data) ==
    CASE data.tag = "NativeObject" -> data.payload
      [] data.tag = "String" -> "RcString"
      [] data.tag = "Boolean" -> "bool"
      [] data.tag = "Number" -> "f64"
      [] data.tag = "BigInt" -> "RcBigInt"
      [] data.tag = "Function" -> "Function"
      [] OTHER -> "()"

is(o, T) ==
    IF o.data.tag = "NativeObject" THEN PayloadType(o.data) = T ELSE FALSE

\* a downcast that compares the payload's type whatever the variant
downcast_refAnyVariant(o, T) ==
    IF PayloadType(o.data) = T THEN [some |-> TRUE, s |-> o.data.payload] ELSE [some |-> FALSE, s |-> ""]

downcast_ref(o, T) ==
    IF o.data.tag = "NativeObject"
    THEN IF PayloadType(o.data) = T THEN [some |-> TRUE, s |-> o.data.payload] ELSE [some |-> FALSE, s |-> ""]
    ELSE [some |-> FALSE, s |-> ""]

downcast_mut(o, T) ==
    IF o.data.tag = "NativeObject"
    THEN IF PayloadType(o.data) = T THEN [some |-> TRUE, s |-> o.data.payload] ELSE [some |-> FALSE, s |-> ""]
    ELSE [some |-> FALSE, s |-> ""]

(***************************************************************************)
(* The context: the global object and the pre-allocated standard pairs     *)
(* (context.standard_objects()), each a (constructor, prototype) pair of   *)
(* handles created before any init runs.                                   *)
(***************************************************************************)
GlobalObject == 1
FunctionCtor == 2
FunctionProto == 3
ObjectCtor == 4
ObjectProto == 5
ErrorCtor == 6
ErrorProto == 7
RangeErrorCtor == 8
RangeErrorProto == 9
ReferenceErrorCtor == 10
ReferenceErrorProto == 11
TypeErrorCtor == 12
TypeErrorProto == 13
SyntaxErrorCtor == 14
SyntaxErrorProto == 15
\* an object created before init runs that already carries the RangeError
\* prototype (an exception raised early)
EarlyObject == 16

StandardConstructor(c, p) == [constructor |-> c, prototype |-> p]

standard_objects ==
    [function_object |-> StandardConstructor(FunctionCtor, FunctionProto),
     object_object |-> StandardConstructor(ObjectCtor, ObjectProto),
     error_object |-> StandardConstructor(ErrorCtor, ErrorProto),
     range_error_object |-> StandardConstructor(RangeErrorCtor, RangeErrorProto),
     reference_error_object |-> StandardConstructor(ReferenceErrorCtor, ReferenceErrorProto),
     type_error_object |-> StandardConstructor(TypeErrorCtor, TypeErrorProto),
     syntax_error_object |-> StandardConstructor(SyntaxErrorCtor, SyntaxErrorProto)]

InitialHeap ==
    [i \in 1..EarlyObject |->
        IF i = GlobalObject
        THEN [ObjectDefault EXCEPT !.data = Data("Global", "")]
        ELSE IF i = EarlyObject
        THEN ObjectCreate(ObjV(standard_objects.range_error_object.prototype))
        ELSE ObjectDefault]

Alloc(h, o) == Append(h, o)
NewHandle(h) == Len(h) + 1

(***************************************************************************)
(* Options.                                                                *)
(***************************************************************************)
NoneS == [some |-> FALSE, s |-> ""]
SomeS(str) == [some |-> TRUE, s |-> str]
NoneV == [some |-> FALSE, v |-> Undefined]
SomeV(v) == [some |-> TRUE, v |-> v]

(***************************************************************************)
(* ConstructorBuilder, of the object module and of the builtins module.    *)
(***************************************************************************)
NoBuilder ==
    [active |-> FALSE, module |-> "", native |-> "", constructor_object |-> 0,
     prototype |-> 0, name |-> NoneS, length |-> 0, callable |-> TRUE,
     constructable |-> TRUE, inherit |-> NoneV]

NoObjectBuilder == [active |-> FALSE, module |-> "", object |-> 0]

\* a builder that takes the pair the wrong way round
ConstructorBuilderObjectSwapped(native, c, p) ==
    [active |-> TRUE, module |-> "object", native |-> native,
     constructor_object |-> p, prototype |-> c, name |-> NoneS, length |-> 0,
     callable |-> TRUE, constructable |-> TRUE, inherit |-> NoneV]

\* object::ConstructorBuilder::new / with_standard_object, given the pair
ConstructorBuilderObject(native, c, p) ==
    [active |-> TRUE, module |-> "object", native |-> native,
     constructor_object |-> c, prototype |-> p, name |-> NoneS, length |-> 0,
     callable |-> TRUE, constructable |-> TRUE, inherit |-> NoneV]

\* builtins::ConstructorBuilder::new / with_standard_object, given the pair
ConstructorBuilderBuiltins(native, c, p) ==
    [active |-> TRUE, module |-> "builtins", native |-> native,
     constructor_object |-> c, prototype |-> p, name |-> SomeS("[Object]"),
     length |-> 0, callable |-> TRUE, constructable |-> TRUE, inherit |-> NoneV]

MakeBuilder(module, native, c, p) ==
    IF module = "object"
    THEN ConstructorBuilderObject(native, c, p)
    ELSE ConstructorBuilderBuiltins(native, c, p)

\* a function object made constructable as well as callable
FunctionObjectConstructable(native, name, length) ==
    LET function == ObjectFunction(FunctionBuiltIn(native, from_parameters(TRUE, TRUE)),
                                   ObjV(standard_objects.function_object.prototype))
        attribute == READONLY \cup NON_ENUMERABLE \cup PERMANENT
    IN insert_property(insert_property(function, "length", NumV(length), attribute),
                       "name", StrV(name), attribute)

\* the function object of object::{ObjectBuilder::function,
\* ConstructorBuilder::method, ConstructorBuilder::static_method}
FunctionObject(native, name, length) ==
    LET function == ObjectFunction(FunctionBuiltIn(native, FlagsCALLABLE),
                                   ObjV(standard_objects.function_object.prototype))
        attribute == READONLY \cup NON_ENUMERABLE \cup PERMANENT
    IN insert_property(insert_property(function, "length", NumV(length), attribute),
                       "name", StrV(name), attribute)

\* the function object of builtins::{ObjectBuilder::static_method,
\* ConstructorBuilder::method, ConstructorBuilder::static_method}
FunctionObjectBuiltins(native, name, length) ==
    LET function == ObjectFunction(FunctionBuiltIn(native, FlagsCALLABLE),
                                   ObjV(standard_objects.function_object.prototype))
    IN insert_property(insert_property(function, "length", NumV(length), AttributeAll),
                       "name", StrV(name), AttributeAll)

\* attach a function object to the object `target` under `name`
AttachFunction(h, target, native, name, length) ==
    LET f == NewHandle(h)
        attribute == WRITABLE \cup NON_ENUMERABLE \cup CONFIGURABLE
    IN Alloc([h EXCEPT ![target] = insert_property(@, name, ObjV(f), attribute)],
             FunctionObject(native, name, length))

AttachFunctionBuiltins(h, target, native, name, length) ==
    LET f == NewHandle(h)
    IN Alloc([h EXCEPT ![target] = insert_property(@, name, ObjV(f), AttributeAll)],
             FunctionObjectBuiltins(native, name, length))

Attach(module, h, target, native, name, length) ==
    IF module = "object"
    THEN AttachFunction(h, target, native, name, length)
    ELSE AttachFunctionBuiltins(h, target, native, name, length)

\* a build() that never uses the configured name
TakeNameAlwaysDefault(bld) == "[object]"

\* the name build() gives the constructor: name.take().unwrap_or("[object]")
\* in the object module, the swapped-out string in the builtins module
TakeName(bld) == IF bld.name.some THEN bld.name.s ELSE "[object]"

\* a build() that leaves the configured name in the builder
NameAfterBuildKept(bld) == bld.name

\* what build() leaves in the builder's name
NameAfterBuild(bld) == IF bld.module = "object" THEN NoneS ELSE SomeS("")

\* the first block of build(): the borrow of the constructor object
BuildConstructor(h, bld) ==
    LET function == FunctionBuiltIn(bld.native,
                                    from_parameters(bld.callable, bld.constructable))
        permanent == READONLY \cup NON_ENUMERABLE \cup PERMANENT
        length == data_descriptor(NumV(bld.length), permanent)
        name == data_descriptor(StrV(TakeName(bld)), permanent)
        c1 == [h[bld.constructor_object] EXCEPT !.data = function]
        c2 == Insert(Insert(c1, "length", length), "name", name)
        c3 == set_prototype_instance(
                  c2, ObjV(standard_objects.function_object.prototype))
        c4 == insert_property(c3, "prototype", ObjV(bld.prototype),
                              IF bld.module = "object" THEN permanent ELSE AttributeAll)
    IN [h EXCEPT ![bld.constructor_object] = c4]

\* build() without the back-reference on the prototype
BuildPrototypeNoBackReference(h, bld) ==
    [h EXCEPT ![bld.prototype] =
        IF bld.inherit.some
        THEN set_prototype_instance(@, bld.inherit.v)
        ELSE set_prototype_instance(
                 @, ObjV(standard_objects.object_object.prototype))]

\* build() that ignores inherit() and always links the Object prototype
BuildPrototypeIgnoresInherit(h, bld) ==
    [h EXCEPT ![bld.prototype] =
        set_prototype_instance(
            insert_property(@, "constructor", ObjV(bld.constructor_object),
                            IF bld.module = "object"
                            THEN WRITABLE \cup NON_ENUMERABLE \cup CONFIGURABLE
                            ELSE AttributeAll),
            ObjV(standard_objects.object_object.prototype))]

\* the second block of build(): the borrow of the prototype object
BuildPrototype(h, bld) ==
    LET p1 == insert_property(h[bld.prototype], "constructor",
                              ObjV(bld.constructor_object),
                              IF bld.module = "object"
                              THEN WRITABLE \cup NON_ENUMERABLE \cup CONFIGURABLE
                              ELSE AttributeAll)
        p2 == IF bld.inherit.some
              THEN set_prototype_instance(p1, bld.inherit.v)
              ELSE set_prototype_instance(
                       p1, ObjV(standard_objects.object_object.prototype))
    IN [h EXCEPT ![bld.prototype] = p2]


(***************************************************************************)
(* Builder calls: the chains the built-ins' init functions make, and the   *)
(* calls a free builder session draws from.                                *)
(***************************************************************************)
Call(op) ==
    [op |-> op, key |-> "", val |-> Undefined, attr |-> {}, len |-> 0,
     flag |-> FALSE, native |-> "", module |-> "", std |-> ""]

CallWithStandardObject(module, native, std) ==
    [Call("with_standard_object") EXCEPT !.module = module, !.native = native, !.std = std]
CallName(n) == [Call("name") EXCEPT !.key = n]
CallLength(n) == [Call("length") EXCEPT !.len = n]
CallProperty(k, v, a) == [Call("property") EXCEPT !.key = k, !.val = v, !.attr = a]
CallStaticProperty(k, v, a) ==
    [Call("static_property") EXCEPT !.key = k, !.val = v, !.attr = a]
CallMethod(f, n, l) == [Call("method") EXCEPT !.native = f, !.key = n, !.len = l]
CallStaticMethod(f, n, l) ==
    [Call("static_method") EXCEPT !.native = f, !.key = n, !.len = l]
CallCallable(f) == [Call("callable") EXCEPT !.flag = f]
CallConstructable(f) == [Call("constructable") EXCEPT !.flag = f]
CallInherit(v) == [Call("inherit") EXCEPT !.val = v]
CallBuild == Call("build")

RangeErrorLENGTH == 1
ReferenceErrorLENGTH == 1
SyntaxErrorLENGTH == 1

\* RangeError::init without the "message" default on the prototype
RangeErrorInitWithoutMessage ==
    LET attribute == WRITABLE \cup NON_ENUMERABLE \cup CONFIGURABLE
    IN << CallWithStandardObject("object", "RangeError::constructor",
                                 "range_error_object"),
          CallName("RangeError"),
          CallLength(RangeErrorLENGTH),
          CallProperty("name", StrV("RangeError"), attribute),
          CallMethod("RangeError::to_string", "toString", 0),
          CallBuild >>

RangeErrorInit ==
    LET attribute == WRITABLE \cup NON_ENUMERABLE \cup CONFIGURABLE
    IN << CallWithStandardObject("object", "RangeError::constructor",
                                 "range_error_object"),
          CallName("RangeError"),
          CallLength(RangeErrorLENGTH),
          CallProperty("name", StrV("RangeError"), attribute),
          CallProperty("message", StrV(""), attribute),
          CallMethod("RangeError::to_string", "toString", 0),
          CallBuild >>

ReferenceErrorInit ==
    LET attribute == WRITABLE \cup NON_ENUMERABLE \cup CONFIGURABLE
    IN << CallWithStandardObject("builtins", "ReferenceError::constructor",
                                 "reference_error_object"),
          CallName("ReferenceError"),
          CallLength(ReferenceErrorLENGTH),
          CallProperty("name", StrV("ReferenceError"), attribute),
          CallProperty("message", StrV(""), attribute),
          CallMethod("ReferenceError::to_string", "toString", 0),
          CallBuild >>

SyntaxErrorInit ==
    LET attribute == WRITABLE \cup NON_ENUMERABLE \cup CONFIGURABLE
    IN << CallWithStandardObject("object", "SyntaxError::constructor",
                                 "syntax_error_object"),
          CallName("SyntaxError"),
          CallLength(SyntaxErrorLENGTH),
          CallProperty("name", StrV("SyntaxError"), attribute),
          CallProperty("message", StrV(""), attribute),
          CallMethod("SyntaxError::to_string", "toString", 0),
          CallBuild >>

\* BuiltIn::attribute(), and SyntaxError's override of it
DefaultAttribute == AttributeAll
SyntaxErrorAttribute == WRITABLE \cup NON_ENUMERABLE \cup CONFIGURABLE

\* the list of init
\* a list that runs RangeError's init before Error's
globals2SubtypeFirst ==
    << "undefined", "Infinity", "NaN", "globalThis", "Function", "Object",
       "Math", "JSON", "console", "Array", "BigInt", "Boolean", "Date", "Map",
       "Number", "String", "RegExp", "Symbol", "RangeError", "Error",
       "ReferenceError", "TypeError", "SyntaxError" >>

globals2 ==
    << "undefined", "Infinity", "NaN", "globalThis", "Function", "Object",
       "Math", "JSON", "console", "Array", "BigInt", "Boolean", "Date", "Map",
       "Number", "String", "RegExp", "Symbol", "Error", "RangeError",
       "ReferenceError", "TypeError", "SyntaxError" >>

Scripted == {"RangeError", "ReferenceError", "SyntaxError"}

ScriptOf(name) ==
    CASE name = "RangeError" -> RangeErrorInit
      [] name = "ReferenceError" -> ReferenceErrorInit
      [] name = "SyntaxError" -> SyntaxErrorInit
      [] OTHER -> << >>

AttributeOf(name) ==
    IF name = "SyntaxError" THEN SyntaxErrorAttribute ELSE DefaultAttribute

Range(f) == {f[i] : i \in DOMAIN f}

ScriptCalls == UNION {Range(ScriptOf(n)) : n \in Scripted}

\* the inputs of a free builder session
FreeCalls ==
    {CallMethod("native_fn", "toString", l) : l \in {0, 2}}
    \cup {CallStaticMethod("native_fn", "of", l) : l \in {0, 2}}
    \cup {CallProperty(k, NumV(7), a) :
              k \in {"constructor", "x"}, a \in {AttributeAll, PERMANENT}}
    \cup {CallStaticProperty(k, NumV(7), AttributeAll) :
              k \in {"prototype", "name", "length"}}
    \cup {CallLength(2), CallName("Foo")}
    \cup {CallCallable(f) : f \in BOOLEAN}
    \cup {CallConstructable(f) : f \in BOOLEAN}
    \cup {CallInherit(v) : v \in {Null, ObjV(ErrorProto), NumV(7)}}
    \cup {CallBuild}

Calls == FreeCalls \cup ScriptCalls

InScript ==
    /\ pc = "init"
    /\ idx <= Len(globals2)
    /\ globals2[idx] \in Scripted
    /\ step <= Len(ScriptOf(globals2[idx]))

\* build() is between its first statement and its return
InBuild == last.op \in {"build:constructor", "build:prototype"}

\* the call c is the next one: of the running init, or of the free session
May(c) ==
    /\ ~InBuild
    /\ \/ InScript /\ c = ScriptOf(globals2[idx])[step]
       \/ pc = "builder" /\ calls < MaxCalls /\ c \in FreeCalls

Advance ==
    IF pc = "init"
    THEN step' = step + 1 /\ calls' = calls
    ELSE step' = step /\ calls' = calls + 1

NoOp ==
    [op |-> "", inh |-> NoneV, ever |-> NoneV, handle |-> 0, kind |-> "",
     args |-> << >>, str |-> FALSE, named |-> NoneS, found |-> NoneS,
     callableSet |-> [some |-> FALSE, flag |-> FALSE],
     constructableSet |-> [some |-> FALSE, flag |-> FALSE], previous |-> 0,
     stored |-> {}, builds |-> 0, handed |-> {}]

\* what the history keeps for the life of a builder: the last values ever
\* given to inherit(), name(), callable() and constructable(), and the keys
\* ever given to property() and static_property(), and the number of build()
\* calls that returned
Carried ==
    [NoOp EXCEPT !.ever = last.ever, !.named = last.named,
                 !.callableSet = last.callableSet,
                 !.constructableSet = last.constructableSet,
                 !.stored = last.stored, !.builds = last.builds]

\* history: the operation, the inherit setting it found and the handle it
\* returned; for build() the name setting it found and, when the call before
\* it was build() too, the handle that call returned; for a native constructor call its kind and
\* arguments, and whether toString was called since; for an ObjectBuilder
\* the handles its build() calls have returned and the key just stored
Did(op, handle) ==
    last' = [Carried EXCEPT !.op = op, !.inh = b.inherit, !.handle = handle]

NoResult == [name |-> "", value |-> Undefined, attribute |-> {}]
NoRet == [kind |-> "none", value |-> Undefined]

Init ==
    /\ heap = InitialHeap
    /\ pc = "init"
    /\ idx = 1
    /\ step = 1
    /\ result = NoResult
    /\ b = NoBuilder
    /\ ob = NoObjectBuilder
    /\ this = Undefined
    /\ ret = NoRet
    /\ calls = 0
    /\ attached = {}
    /\ last = NoOp
    /\ returned = << >>
    /\ borrowed = {}

(***************************************************************************)
(* ConstructorBuilder operations.                                          *)
(***************************************************************************)
WithStandardObject ==
    \E c \in Calls :
        /\ c.op = "with_standard_object"
        /\ May(c)
        /\ b' = MakeBuilder(c.module, c.native,
                            standard_objects[c.std].constructor,
                            standard_objects[c.std].prototype)
        /\ last' = [NoOp EXCEPT !.op = "with_standard_object"]
        /\ Advance
        /\ UNCHANGED <<returned, borrowed, heap, pc, idx, result, ob, this, ret, attached>>

ConstructorBuilderNew ==
    \E module \in {"object", "builtins"} :
        /\ pc = "ready"
        /\ heap' = Alloc(Alloc(heap, ObjectDefault), ObjectDefault)
        /\ b' = MakeBuilder(module, "native_ctor", Len(heap) + 1, Len(heap) + 2)
        /\ pc' = "builder"
        /\ last' = [NoOp EXCEPT !.op = "new"]
        /\ UNCHANGED <<returned, borrowed, idx, step, result, ob, this, ret, calls, attached>>

Method ==
    \E c \in Calls :
        /\ c.op = "method"
        /\ May(c)
        /\ heap' = Attach(b.module, heap, b.prototype, c.native, c.key, c.len)
        /\ attached' = attached \cup {NewHandle(heap)}
        /\ Did("method", 0)
        /\ Advance
        /\ UNCHANGED <<returned, borrowed, pc, idx, result, b, ob, this, ret>>

StaticMethod ==
    \E c \in Calls :
        /\ c.op = "static_method"
        /\ May(c)
        /\ heap' = Attach(b.module, heap, b.constructor_object, c.native, c.key, c.len)
        /\ attached' = attached \cup {NewHandle(heap)}
        /\ Did("static_method", 0)
        /\ Advance
        /\ UNCHANGED <<returned, borrowed, pc, idx, result, b, ob, this, ret>>

Property ==
    \E c \in Calls :
        /\ c.op = "property"
        /\ May(c)
        /\ heap' = [heap EXCEPT ![b.prototype] =
                        Insert(@, c.key, data_descriptor(c.val, c.attr))]
        /\ last' = [Carried EXCEPT !.op = "property", !.inh = b.inherit,
                                    !.stored = last.stored \cup {<<"property", c.key>>}]
        /\ Advance
        /\ UNCHANGED <<returned, borrowed, pc, idx, result, b, ob, this, ret, attached>>

StaticProperty ==
    \E c \in Calls :
        /\ c.op = "static_property"
        /\ May(c)
        /\ heap' = [heap EXCEPT ![b.constructor_object] =
                        Insert(@, c.key, data_descriptor(c.val, c.attr))]
        /\ last' = [Carried EXCEPT !.op = "static_property", !.inh = b.inherit,
                                    !.stored = last.stored \cup {<<"static_property", c.key>>}]
        /\ Advance
        /\ UNCHANGED <<returned, borrowed, pc, idx, result, b, ob, this, ret, attached>>

BuilderLength ==
    \E c \in Calls :
        /\ c.op = "length"
        /\ May(c)
        /\ b' = [b EXCEPT !.length = c.len]
        /\ Did("length", 0)
        /\ Advance
        /\ UNCHANGED <<returned, borrowed, heap, pc, idx, result, ob, this, ret, attached>>

BuilderName ==
    \E c \in Calls :
        /\ c.op = "name"
        /\ May(c)
        /\ b' = [b EXCEPT !.name = SomeS(c.key)]
        /\ last' = [Carried EXCEPT !.op = "name", !.inh = b.inherit,
                                    !.named = SomeS(c.key)]
        /\ Advance
        /\ UNCHANGED <<returned, borrowed, heap, pc, idx, result, ob, this, ret, attached>>

Callable ==
    \E c \in Calls :
        /\ c.op = "callable"
        /\ May(c)
        /\ b' = [b EXCEPT !.callable = c.flag]
        /\ last' = [Carried EXCEPT !.op = "callable", !.inh = b.inherit,
                                    !.callableSet = [some |-> TRUE, flag |-> c.flag]]
        /\ Advance
        /\ UNCHANGED <<returned, borrowed, heap, pc, idx, result, ob, this, ret, attached>>

Constructable ==
    \E c \in Calls :
        /\ c.op = "constructable"
        /\ May(c)
        /\ b' = [b EXCEPT !.constructable = c.flag]
        /\ last' = [Carried EXCEPT !.op = "constructable", !.inh = b.inherit,
                                    !.constructableSet = [some |-> TRUE, flag |-> c.flag]]
        /\ Advance
        /\ UNCHANGED <<returned, borrowed, heap, pc, idx, result, ob, this, ret, attached>>

\* assert!(prototype.is_object() || prototype.is_null()) fails: the panic
\* unwinds before the builder is written
Inherit ==
    \E c \in Calls :
        /\ c.op = "inherit"
        /\ May(c)
        /\ IF PrototypeOk(c.val)
           THEN /\ b' = [b EXCEPT !.inherit = SomeV(c.val)]
                /\ last' = [Carried EXCEPT !.op = "inherit", !.inh = b.inherit,
                                            !.ever = SomeV(c.val), !.args = <<c.val>>]
                /\ Advance
                /\ pc' = pc
           ELSE /\ pc' = "panic"
                /\ last' = [Carried EXCEPT !.op = "inherit", !.inh = b.inherit,
                                            !.args = <<c.val>>]
                /\ UNCHANGED <<b, step, calls>>
        /\ UNCHANGED <<returned, borrowed, heap, idx, result, ob, this, ret, attached>>

\* borrow_mut() on the object h: fails when its borrow is already held
BorrowMutFails(held, h) == h \in held

\* the borrows left when the constructor block of build() ends without
\* dropping its borrow
EndConstructorBlockKeepsBorrow(held, bld) == held

\* the end of the constructor block of build(): `constructor` goes out of scope
EndConstructorBlock(held, bld) == held \ {bld.constructor_object}

BorrowMutError ==
    /\ pc' = "panic"
    /\ last' = [NoOp EXCEPT !.op = "BorrowMutError"]
    /\ UNCHANGED <<returned, borrowed, heap, idx, step, result, b, ob, this, ret, calls, attached>>

\* build() up to the last statement of its first block: the name is taken
\* and the constructor is written under its borrow
BuildConstructorBlock ==
    \E c \in Calls :
        /\ c.op = "build"
        /\ May(c)
        /\ IF BorrowMutFails(borrowed, b.constructor_object)
           THEN BorrowMutError
           ELSE /\ borrowed' = borrowed \cup {b.constructor_object}
                /\ heap' = BuildConstructor(heap, b)
                /\ b' = [b EXCEPT !.name = NameAfterBuild(b)]
                /\ last' = [Carried EXCEPT !.op = "build:constructor",
                                            !.inh = b.inherit, !.found = b.name,
                                            !.previous = IF last.op = "build" THEN last.handle ELSE 0]
                /\ UNCHANGED <<returned, pc, idx, step, result, ob, this, ret, calls, attached>>

\* the first block ends and the second runs up to its last statement: the
\* inherit setting is taken and the prototype is written under its borrow
BuildPrototypeBlock ==
    /\ last.op = "build:constructor"
    /\ IF BorrowMutFails(EndConstructorBlock(borrowed, b), b.prototype)
       THEN BorrowMutError
       ELSE /\ borrowed' = EndConstructorBlock(borrowed, b) \cup {b.prototype}
            /\ heap' = BuildPrototype(heap, b)
            /\ b' = [b EXCEPT !.inherit = NoneV]
            /\ last' = [last EXCEPT !.op = "build:prototype"]
            /\ UNCHANGED <<returned, pc, idx, step, result, ob, this, ret, calls, attached>>

\* the second block ends and build() returns the constructor handle
BuildReturn ==
    /\ last.op = "build:prototype"
    /\ borrowed' = borrowed \ {b.prototype}
    /\ last' = [last EXCEPT !.op = "build", !.handle = b.constructor_object,
                            !.builds = last.builds + 1]
    /\ Advance
    /\ UNCHANGED <<returned, heap, pc, idx, result, b, ob, this, ret, attached>>

\* the builder goes out of scope
DropBuilder ==
    /\ pc = "builder"
    /\ ~InBuild
    /\ b' = NoBuilder
    /\ pc' = "done"
    /\ last' = [NoOp EXCEPT !.op = "drop"]
    /\ UNCHANGED <<returned, borrowed, heap, idx, step, result, ob, this, ret, calls, attached>>

(***************************************************************************)
(* builtins::init: for each entry of globals2, call its init and bind the  *)
(* value it returns on the global object.                                  *)
(***************************************************************************)
\* the tuple a built-in's init returns once its builder chain has built
InitReturn ==
    /\ pc = "init"
    /\ idx <= Len(globals2)
    /\ globals2[idx] \in Scripted
    /\ step = Len(ScriptOf(globals2[idx])) + 1
    /\ result = NoResult
    /\ result' = [name |-> globals2[idx], value |-> ObjV(last.handle),
                  attribute |-> AttributeOf(globals2[idx])]
    /\ b' = NoBuilder
    /\ returned' = Append(returned, result')
    /\ last' = [NoOp EXCEPT !.op = "init_return"]
    /\ UNCHANGED <<borrowed, heap, pc, idx, step, ob, this, ret, calls, attached>>

\* the value of a built-in whose init is not part of the sources at hand
OtherValue(name, h) ==
    CASE name = "undefined" -> Undefined
      [] name = "Infinity" -> [t |-> "number", id |-> 0, s |-> "Infinity"]
      [] name = "NaN" -> [t |-> "number", id |-> 0, s |-> "NaN"]
      [] name = "globalThis" -> ObjV(GlobalObject)
      [] name = "Function" -> ObjV(standard_objects.function_object.constructor)
      [] name = "Object" -> ObjV(standard_objects.object_object.constructor)
      [] name = "Error" -> ObjV(standard_objects.error_object.constructor)
      [] name = "TypeError" -> ObjV(standard_objects.type_error_object.constructor)
      [] OTHER -> ObjV(NewHandle(h))

OtherInit ==
    /\ pc = "init"
    /\ idx <= Len(globals2)
    /\ globals2[idx] \notin Scripted
    /\ result = NoResult
    /\ LET v == OtherValue(globals2[idx], heap)
       IN /\ heap' = IF v = ObjV(NewHandle(heap)) THEN Alloc(heap, ObjectDefault) ELSE heap
          /\ result' = [name |-> globals2[idx], value |-> v,
                        attribute |-> DefaultAttribute]
    /\ returned' = Append(returned, result')
    /\ last' = [NoOp EXCEPT !.op = "init_return"]
    /\ UNCHANGED <<borrowed, pc, idx, step, b, ob, this, ret, calls, attached>>

\* an insert that binds every entry with the default attribute
GlobalInsertDefaultAttribute(h, r) ==
    [h EXCEPT ![GlobalObject] = Insert(@, r.name, data_descriptor(r.value, DefaultAttribute))]

\* the body of init's for loop after the call: the insert on the global object
GlobalInsert(h, r) ==
    [h EXCEPT ![GlobalObject] = Insert(@, r.name, data_descriptor(r.value, r.attribute))]

InitInsert ==
    /\ pc = "init"
    /\ result # NoResult
    /\ IF BorrowMutFails(borrowed, GlobalObject)
       THEN BorrowMutError
       ELSE /\ heap' = GlobalInsert(heap, result)
            /\ result' = NoResult
            /\ idx' = idx + 1
            /\ step' = 1
            /\ pc' = IF idx = Len(globals2) THEN "ready" ELSE "init"
            /\ last' = [NoOp EXCEPT !.op = "insert"]
            /\ UNCHANGED <<returned, borrowed, b, ob, this, ret, calls, attached>>

(***************************************************************************)
(* ObjectBuilder, of the object module (function, property, build) and of  *)
(* the builtins module (static_method, static_property, build).            *)
(***************************************************************************)
\* context.construct_object(): an empty object with the Object prototype
construct_object == ObjectCreate(ObjV(standard_objects.object_object.prototype))

ObjectBuilderNew ==
    \E module \in {"object", "builtins"} :
        /\ pc = "ready"
        /\ heap' = Alloc(heap, construct_object)
        /\ ob' = [active |-> TRUE, module |-> module, object |-> NewHandle(heap)]
        /\ pc' = "objbuilder"
        /\ last' = [NoOp EXCEPT !.op = "ob_new"]
        /\ UNCHANGED <<returned, borrowed, idx, step, result, b, this, ret, calls, attached>>

ObFreeNames == {"f", "message"}
ObFreeLengths == {0, 2}

ObjectBuilderFunction ==
    \E name \in ObFreeNames, length \in ObFreeLengths :
        /\ pc = "objbuilder" /\ calls < MaxCalls
        /\ ob.module = "object"
        /\ heap' = AttachFunction(heap, ob.object, "native_fn", name, length)
        /\ attached' = attached \cup {NewHandle(heap)}
        /\ calls' = calls + 1
        /\ last' = [NoOp EXCEPT !.op = "ob_function", !.args = <<StrV(name)>>,
                                 !.handed = last.handed]
        /\ UNCHANGED <<returned, borrowed, pc, idx, step, result, b, ob, this, ret>>

ObjectBuilderStaticMethod ==
    \E name \in ObFreeNames, length \in ObFreeLengths :
        /\ pc = "objbuilder" /\ calls < MaxCalls
        /\ ob.module = "builtins"
        /\ heap' = AttachFunctionBuiltins(heap, ob.object, "native_fn", name, length)
        /\ attached' = attached \cup {NewHandle(heap)}
        /\ calls' = calls + 1
        /\ last' = [NoOp EXCEPT !.op = "ob_static_method", !.args = <<StrV(name)>>,
                                 !.handed = last.handed]
        /\ UNCHANGED <<returned, borrowed, pc, idx, step, result, b, ob, this, ret>>

ObjectBuilderProperty ==
    \E key \in ObFreeNames, attribute \in {AttributeAll, PERMANENT} :
        /\ pc = "objbuilder" /\ calls < MaxCalls
        /\ ob.module = "object"
        /\ heap' = [heap EXCEPT ![ob.object] =
                        Insert(@, key, data_descriptor(NumV(7), attribute))]
        /\ calls' = calls + 1
        /\ last' = [NoOp EXCEPT !.op = "ob_property", !.args = <<StrV(key)>>,
                                 !.handed = last.handed]
        /\ UNCHANGED <<returned, borrowed, pc, idx, step, result, b, ob, this, ret, attached>>

ObjectBuilderStaticProperty ==
    \E key \in ObFreeNames, attribute \in {AttributeAll, PERMANENT} :
        /\ pc = "objbuilder" /\ calls < MaxCalls
        /\ ob.module = "builtins"
        /\ heap' = [heap EXCEPT ![ob.object] =
                        Insert(@, key, data_descriptor(NumV(7), attribute))]
        /\ calls' = calls + 1
        /\ last' = [NoOp EXCEPT !.op = "ob_static_property", !.args = <<StrV(key)>>,
                                 !.handed = last.handed]
        /\ UNCHANGED <<returned, borrowed, pc, idx, step, result, b, ob, this, ret, attached>>

\* a build() that hands out a copy of the builder's object
ObjectBuilderBuildCopies ==
    /\ pc = "objbuilder" /\ calls < MaxCalls
    /\ calls' = calls + 1
    /\ heap' = Alloc(heap, heap[ob.object])
    /\ last' = [NoOp EXCEPT !.op = "ob_build", !.handle = NewHandle(heap),
                            !.handed = last.handed \cup {NewHandle(heap)}]
    /\ UNCHANGED <<returned, borrowed, pc, idx, step, result, b, ob, this, ret, attached>>

ObjectBuilderBuild ==
    /\ pc = "objbuilder" /\ calls < MaxCalls
    /\ calls' = calls + 1
    /\ last' = [NoOp EXCEPT !.op = "ob_build", !.handle = ob.object,
                            !.handed = last.handed \cup {ob.object}]
    /\ UNCHANGED <<returned, borrowed, heap, pc, idx, step, result, b, ob, this, ret, attached>>

DropObjectBuilder ==
    /\ pc = "objbuilder"
    /\ ob' = NoObjectBuilder
    /\ pc' = "done"
    /\ last' = [NoOp EXCEPT !.op = "drop"]
    /\ UNCHANGED <<returned, borrowed, heap, idx, step, result, b, this, ret, calls, attached>>

(***************************************************************************)
(* Value operations the error built-ins call.                              *)
(***************************************************************************)
Digit == <<"0", "1", "2", "3", "4", "5", "6", "7", "8", "9">>

RECURSIVE Decimal(_)
Decimal(n) ==
    IF n < 10 THEN Digit[n + 1] ELSE Decimal(n \div 10) \o Digit[(n % 10) + 1]

\* Value::to_string on a primitive: Ok(text), or Err for a symbol
to_string(v) ==
    CASE v.t = "string" -> [ok |-> TRUE, s |-> v.s]
      [] v.t = "number" -> [ok |-> TRUE, s |-> IF v.s # "" THEN v.s ELSE Decimal(v.id)]
      [] v.t = "undefined" -> [ok |-> TRUE, s |-> "undefined"]
      [] v.t = "null" -> [ok |-> TRUE, s |-> "null"]
      [] OTHER -> [ok |-> FALSE, s |-> ""]

ChainFuel == 8

\* Value::get_field: the own property, else the prototype chain's, else undefined
RECURSIVE GetFieldFrom(_, _, _, _)
GetFieldFrom(h, v, key, fuel) ==
    IF ~is_object(v) \/ fuel = 0
    THEN Undefined
    ELSE IF HasOwn(h[v.id], key)
         THEN h[v.id].props[key].value
         ELSE GetFieldFrom(h, h[v.id].prototype, key, fuel - 1)

get_field(h, v, key) == GetFieldFrom(h, v, key, ChainFuel)

\* Value::set_field: writes the own property of an object
set_field(h, v, key, value) ==
    IF ~is_object(v)
    THEN h
    ELSE IF HasOwn(h[v.id], key)
         THEN IF "W" \in h[v.id].props[key].attribute
              THEN [h EXCEPT ![v.id].props[key].value = value]
              ELSE h
         ELSE [h EXCEPT ![v.id] = insert_property(@, key, value, AttributeAll)]

\* Value::set_data
set_data(h, v, data) ==
    IF is_object(v) THEN [h EXCEPT ![v.id].data = data] ELSE h

Ok(v) == [kind |-> "Ok", value |-> v]
Err(v) == [kind |-> "Err", value |-> v]

\* the TypeError a failed to_string throws
ThrownTypeError ==
    ObjectWithPrototype(ObjV(standard_objects.type_error_object.prototype),
                        Data("Error", ""))

(***************************************************************************)
(* RangeError / ReferenceError / SyntaxError: constructor and to_string.   *)
(***************************************************************************)
\* the outcome of a native call: the heap it leaves and what it returns
Outcome(h, r) == [heap |-> h, ret |-> r]

ErrorConstructor(h, thisv, args) ==
    IF Len(args) > 0 /\ ~to_string(args[1]).ok
    THEN \* `?`: the failure is returned before anything is written
         Outcome(Alloc(h, ThrownTypeError), Err(ObjV(NewHandle(h))))
    ELSE LET h1 == IF Len(args) > 0
                   THEN set_field(h, thisv, "message", StrV(to_string(args[1]).s))
                   ELSE h
             h2 == set_data(h1, thisv, Data("Error", ""))
         IN Outcome(h2, Err(thisv))

\* a constructor that returns `this` through the Ok channel
RangeErrorConstructorReturnsOk(h, thisv, args) ==
    [ErrorConstructor(h, thisv, args) EXCEPT !.ret.kind = "Ok"]

\* a constructor that retags `this` even when the conversion failed
RangeErrorConstructorRetagsAlways(h, thisv, args) ==
    [ErrorConstructor(h, thisv, args) EXCEPT
        !.heap = set_data(@, thisv, Data("Error", ""))]

RangeErrorConstructor(h, thisv, args) == ErrorConstructor(h, thisv, args)
ReferenceErrorConstructor(h, thisv, args) == ErrorConstructor(h, thisv, args)
SyntaxErrorConstructor(h, thisv, args) == ErrorConstructor(h, thisv, args)

NativeConstructor(kind, h, thisv, args) ==
    CASE kind = "RangeError" -> RangeErrorConstructor(h, thisv, args)
      [] kind = "ReferenceError" -> ReferenceErrorConstructor(h, thisv, args)
      [] kind = "SyntaxError" -> SyntaxErrorConstructor(h, thisv, args)

\* a to_string that leaves out the space after the colon
ErrorToStringNoSpace(h, thisv) ==
    LET name == to_string(get_field(h, thisv, "name"))
        message == to_string(get_field(h, thisv, "message"))
    IN IF ~name.ok \/ ~message.ok
       THEN Outcome(Alloc(h, ThrownTypeError), Err(ObjV(NewHandle(h))))
       ELSE Outcome(h, Ok(StrV(name.s \o ":" \o message.s)))

\* RangeError::to_string and ReferenceError::to_string
ErrorToString(h, thisv) ==
    LET name == to_string(get_field(h, thisv, "name"))
        message == to_string(get_field(h, thisv, "message"))
    IN IF ~name.ok \/ ~message.ok
       THEN Outcome(Alloc(h, ThrownTypeError), Err(ObjV(NewHandle(h))))
       ELSE Outcome(h, Ok(StrV(name.s \o ": " \o message.s)))

ArgLists ==
    { << >>, <<StrV("bad")>>, <<NumV(7)>>, <<NumV(12)>>, <<Undefined>>, <<SymV>>,
      <<StrV("bad"), SymV>> }

\* the objects a constructor may be called on as a plain function
ThisObjects == {GlobalObject, RangeErrorProto, ObjectProto}

\* the constructor bound on the global object under `kind`
GlobalConstructor(h, kind) == h[GlobalObject].props[kind].value

\* `new kind(args)`: the engine allocates `this` with the constructor's
\* "prototype" as its prototype, then calls the constructor on it
Construct ==
    \E kind \in Scripted, args \in ArgLists :
        /\ pc = "ready"
        /\ LET proto == get_field(heap, GlobalConstructor(heap, kind), "prototype")
               h1 == Alloc(heap, ObjectCreate(proto))
               out == NativeConstructor(kind, h1, ObjV(NewHandle(heap)), args)
           IN /\ this' = ObjV(NewHandle(heap))
              /\ heap' = out.heap
              /\ ret' = out.ret
        /\ pc' = "error"
        /\ last' = [NoOp EXCEPT !.op = "construct", !.kind = kind, !.args = args]
        /\ UNCHANGED <<returned, borrowed, idx, step, result, b, ob, calls, attached>>

\* kind(args) called on an existing object: one of the context's, or the
\* object an ObjectBuilder has just built
CallConstructor ==
    \E kind \in Scripted, args \in ArgLists, o \in ThisObjects \cup {ob.object} :
        /\ \/ pc = "ready" /\ o \in ThisObjects
           \/ pc = "objbuilder" /\ last.op = "ob_build" /\ o = ob.object
        /\ LET out == NativeConstructor(kind, heap, ObjV(o), args)
           IN /\ this' = ObjV(o)
              /\ heap' = out.heap
              /\ ret' = out.ret
        /\ pc' = "error"
        /\ last' = [NoOp EXCEPT !.op = "call", !.kind = kind, !.args = args]
        /\ UNCHANGED <<returned, borrowed, idx, step, result, b, ob, calls, attached>>

ToStringNatives == {"RangeError::to_string", "ReferenceError::to_string"}

\* this.toString(): the method found through the prototype chain
ToStringCall ==
    /\ pc = "error"
    /\ LET f == get_field(heap, this, "toString")
       IN /\ is_object(f)
          /\ heap[f.id].data.tag = "Function"
          /\ heap[f.id].data.payload \in ToStringNatives
    /\ LET out == ErrorToString(heap, this)
       IN heap' = out.heap /\ ret' = out.ret
    /\ pc' = "done"
    /\ last' = [last EXCEPT !.str = TRUE]
    /\ UNCHANGED <<returned, borrowed, idx, step, result, b, ob, this, calls, attached>>

(***************************************************************************)
(* The Object factories and set_prototype_instance, called directly.       *)
(***************************************************************************)
FactoryValues == {Null, Undefined, NumV(7), ObjV(ObjectProto)}

InFactory == pc \in {"ready", "factory"} /\ calls < MaxObjects

Made(o, op) ==
    /\ heap' = Alloc(heap, o)
    /\ pc' = "factory"
    /\ calls' = calls + 1
    /\ last' = [NoOp EXCEPT !.op = op, !.handle = NewHandle(heap)]
    /\ UNCHANGED <<returned, borrowed, idx, step, result, b, ob, this, ret, attached>>

Panicked(op) ==
    /\ pc' = "panic"
    /\ last' = [NoOp EXCEPT !.op = op]
    /\ UNCHANGED <<returned, borrowed, heap, idx, step, result, b, ob, this, ret, calls, attached>>

FactoryNew == InFactory /\ Made(ObjectNew, "Object::new")

FactoryFunction ==
    \E prototype \in FactoryValues :
        InFactory /\ Made(ObjectFunction(FunctionBuiltIn("native_fn", FlagsCALLABLE),
                                         prototype), "Object::function")

FactoryCreate ==
    \E proto \in FactoryValues : InFactory /\ Made(ObjectCreate(proto), "Object::create")

FactoryBoolean ==
    \E v \in {"true", "false"} : InFactory /\ Made(ObjectBoolean(v), "Object::boolean")

FactoryNumber == InFactory /\ Made(ObjectNumber("1.5"), "Object::number")

FactoryString == InFactory /\ Made(ObjectString("abc"), "Object::string")

FactoryBigInt == InFactory /\ Made(ObjectBigInt("10n"), "Object::bigint")

NativeTypes == {"T", "U"}

FactoryNativeObject ==
    \E type \in NativeTypes : InFactory /\ Made(ObjectNative(type), "Object::native_object")

FactoryWithPrototype ==
    \E proto \in FactoryValues, tag \in {"Ordinary", "Error"} :
        /\ InFactory
        /\ IF PrototypeOk(proto)
           THEN Made(ObjectWithPrototype(proto, Data(tag, "")), "Object::with_prototype")
           ELSE Panicked("Object::with_prototype")

\* on the object the session made last
SetPrototypeInstance ==
    \E prototype \in FactoryValues :
        /\ pc = "factory" /\ calls < MaxObjects
        /\ IF PrototypeOk(prototype)
           THEN /\ heap' = [heap EXCEPT ![Len(heap)] = set_prototype_instance(@, prototype)]
                /\ calls' = calls + 1
                /\ last' = [NoOp EXCEPT !.op = "set_prototype_instance",
                                         !.handle = Len(heap)]
                /\ UNCHANGED <<returned, borrowed, pc, idx, step, result, b, ob, this, ret, attached>>
           ELSE Panicked("set_prototype_instance")

\* the type parameters asked for: the stored types and one that is the
\* payload type of a variant other than NativeObject
DowncastTypes == NativeTypes \cup {"RcString"}

Answer(yes) == [kind |-> IF yes THEN "yes" ELSE "no", value |-> Undefined]

\* is::<T>(), downcast_ref::<T>() or downcast_mut::<T>() on the object the
\* session made last
Downcast ==
    \E T \in DowncastTypes, op \in {"is", "downcast_ref", "downcast_mut"} :
        /\ pc = "factory" /\ calls < MaxObjects
        /\ ret' = CASE op = "is" -> Answer(is(heap[Len(heap)], T))
                    [] op = "downcast_ref" -> Answer(downcast_ref(heap[Len(heap)], T).some)
                    [] op = "downcast_mut" -> Answer(downcast_mut(heap[Len(heap)], T).some)
        /\ calls' = calls + 1
        /\ last' = [NoOp EXCEPT !.op = op, !.handle = Len(heap), !.kind = T]
        /\ UNCHANGED <<returned, borrowed, heap, pc, idx, step, result, b, ob, this, attached>>

Next ==
    \/ WithStandardObject
    \/ ConstructorBuilderNew
    \/ Method
    \/ StaticMethod
    \/ Property
    \/ StaticProperty
    \/ BuilderLength
    \/ BuilderName
    \/ Callable
    \/ Constructable
    \/ Inherit
    \/ BuildConstructorBlock
    \/ BuildPrototypeBlock
    \/ BuildReturn
    \/ DropBuilder
    \/ InitReturn
    \/ OtherInit
    \/ InitInsert
    \/ ObjectBuilderNew
    \/ ObjectBuilderFunction
    \/ ObjectBuilderStaticMethod
    \/ ObjectBuilderProperty
    \/ ObjectBuilderStaticProperty
    \/ ObjectBuilderBuild
    \/ DropObjectBuilder
    \/ Construct
    \/ CallConstructor
    \/ ToStringCall
    \/ FactoryNew
    \/ FactoryFunction
    \/ FactoryCreate
    \/ FactoryBoolean
    \/ FactoryNumber
    \/ FactoryString
    \/ FactoryBigInt
    \/ FactoryNativeObject
    \/ FactoryWithPrototype
    \/ SetPrototypeInstance
    \/ Downcast

Spec == Init /\ [][Next]_vars

(***************************************************************************)
(* Properties.                                                             *)
(***************************************************************************)
Built == last.op = "build"
Ctor == heap[last.handle]
Proto == heap[b.prototype]

\* C1: immediately after ConstructorBuilder::build() returns, whatever builder
\* calls came before it, the returned constructor's own "prototype" property
\* holds the builder's prototype handle, and that prototype's own "constructor"
\* property holds the returned constructor's handle.
C1_MutualBackReference ==
    Built =>
        /\ last.handle = b.constructor_object
        /\ HasOwn(Ctor, "prototype")
        /\ Ctor.props["prototype"].value = ObjV(b.prototype)
        /\ HasOwn(Proto, "constructor")
        /\ Proto.props["constructor"].value = ObjV(last.handle)

\* a free builder session, of either module, that made a property("x", ..)
\* call among its calls and built last
C1_Witness ==
    /\ Built
    /\ pc = "builder"
    /\ calls = MaxCalls
    /\ Ctor.props["prototype"].value = ObjV(b.prototype)
    /\ HasOwn(Proto, "x")

\* C2: every function object attached through either builder, of either
\* module, has own "length" and "name" properties, a number and a string, with
\* neither WRITABLE nor CONFIGURABLE set.
C2_AttachedLengthNamePermanent ==
    \A f \in attached :
        /\ HasOwn(heap[f], "length")
        /\ HasOwn(heap[f], "name")
        /\ heap[f].props["length"].value.t = "number"
        /\ heap[f].props["name"].value.t = "string"
        /\ heap[f].props["length"].attribute \cap {"W", "C"} = {}
        /\ heap[f].props["name"].attribute \cap {"W", "C"} = {}

\* C3: once init has run every entry, the prototype link of RangeError.prototype,
\* of ReferenceError.prototype and of SyntaxError.prototype is Error.prototype.
C3_ErrorSubtypesInheritError ==
    pc = "ready" =>
        /\ heap[RangeErrorProto].prototype = ObjV(ErrorProto)
        /\ heap[ReferenceErrorProto].prototype = ObjV(ErrorProto)
        /\ heap[SyntaxErrorProto].prototype = ObjV(ErrorProto)

\* C4: the prototype field of every Object is null or an object reference,
\* whichever factory made it and whatever set_prototype_instance calls followed.
C4_PrototypeNullOrObject ==
    \A i \in 1..Len(heap) : PrototypeOk(heap[i].prototype)

\* C5 as stated: build() tags the constructor Function, links it to the
\* Function prototype, and links the prototype object to the value of the last
\* inherit() call if inherit() was ever called on the builder, otherwise to the
\* Object prototype.
C5_BuildLinksLastInheritEver ==
    Built =>
        /\ Ctor.data.tag = "Function"
        /\ Ctor.prototype = ObjV(FunctionProto)
        /\ Proto.prototype = IF last.ever.some THEN last.ever.v ELSE ObjV(ObjectProto)

\* C5 as amended: build() tags the constructor Function, links it to the
\* Function prototype, and links the prototype object to the value of the last
\* inherit() call made since the builder was created or last built, if there
\* was one (an object or null), otherwise to the Object prototype.
C5_BuildLinks ==
    Built =>
        /\ Ctor.data.tag = "Function"
        /\ Ctor.prototype = ObjV(FunctionProto)
        /\ Proto.prototype = IF last.inh.some THEN last.inh.v ELSE ObjV(ObjectProto)

\* inherit(null) was pending at build(): the prototype link is null
C5_Witness ==
    /\ Built
    /\ last.inh = SomeV(Null)
    /\ Proto.prototype = Null

BuilderConfigOps ==
    {"method", "static_method", "property", "static_property", "length", "name",
     "callable", "constructable", "inherit"}

\* C6: between the creation of a ConstructorBuilder and build(), no builder
\* operation changes the constructor object or the prototype object.
C6_OnlyBuildMutates ==
    [][(b.active /\ last'.op \in BuilderConfigOps) =>
          /\ heap'[b.constructor_object] = heap[b.constructor_object]
          /\ heap'[b.prototype] = heap[b.prototype]]_vars

\* C7: after build(), in both modules, the constructor's "prototype" property
\* is not enumerable, and the prototype's "constructor" property is writable,
\* not enumerable and configurable.
C7_BackReferenceAttributes ==
    Built =>
        /\ "E" \notin Ctor.props["prototype"].attribute
        /\ Proto.props["constructor"].attribute = {"W", "C"}

Constructed == last.op \in {"construct", "call"} /\ ~last.str
Stringifies(args) == Len(args) = 0 \/ to_string(args[1]).ok

ConstructedWith(kind, args) ==
    last.op = "construct" /\ last.kind = kind /\ last.args = args

\* C9: after full initialization, constructing a RangeError with no arguments
\* creates no own "message" on the new object; reading "message" resolves
\* through the prototype chain to the empty string installed on
\* RangeError.prototype, and toString on it yields "RangeError: ".
C9_NoArgumentMessage ==
    ConstructedWith("RangeError", << >>) =>
        /\ ~HasOwn(heap[this.id], "message")
        /\ heap[this.id].prototype = ObjV(RangeErrorProto)
        /\ HasOwn(heap[RangeErrorProto], "message")
        /\ heap[RangeErrorProto].props["message"].value = StrV("")
        /\ get_field(heap, this, "message") = StrV("")
        /\ last.str => ret = Ok(StrV("RangeError: "))

C9_Witness ==
    /\ ConstructedWith("RangeError", << >>)
    /\ last.str
    /\ ret = Ok(StrV("RangeError: "))

\* C10: after full initialization, constructing a RangeError with the message
\* "bad" yields an object whose "name" reads "RangeError", whose "message"
\* reads "bad" and whose toString yields "RangeError: bad"; in general
\* to_string returns the name, then ": ", then the message.
C10_MessageAndToString ==
    /\ ConstructedWith("RangeError", <<StrV("bad")>>) =>
          /\ get_field(heap, this, "name") = StrV("RangeError")
          /\ get_field(heap, this, "message") = StrV("bad")
          /\ last.str => ret = Ok(StrV("RangeError: bad"))
    /\ \A kind \in {"RangeError", "ReferenceError"} :
          (last.op = "construct" /\ last.kind = kind /\ last.str
              /\ Stringifies(last.args)) =>
             ret = Ok(StrV(kind \o ": " \o
                           (IF Len(last.args) = 0 THEN ""
                            ELSE to_string(last.args[1]).s)))

C10_Witness ==
    /\ ConstructedWith("RangeError", <<StrV("bad")>>)
    /\ last.str
    /\ ret = Ok(StrV("RangeError: bad"))

\* C11: a built-in that does not override BuiltIn::attribute() (RangeError,
\* ReferenceError) is bound on the global object with the default attribute,
\* writable, non-enumerable and configurable: once init has bound it, its
\* global binding does not have ENUMERABLE set.
C11_DefaultBindingNotEnumerable ==
    \A name \in {"RangeError", "ReferenceError"} :
        HasOwn(heap[GlobalObject], name) =>
            /\ WRITABLE \subseteq heap[GlobalObject].props[name].attribute
            /\ CONFIGURABLE \subseteq heap[GlobalObject].props[name].attribute
            /\ ~(ENUMERABLE \subseteq heap[GlobalObject].props[name].attribute)

\* C12: after init completes, for every entry of the list the global object's
\* own property map holds, under the name that entry's init returned, a data
\* property with exactly the value and attribute init returned (a later entry
\* of the same name replaces an earlier one), and init adds no other key to
\* the global object.
C12_GlobalBindings ==
    pc = "ready" =>
        /\ Len(returned) = Len(globals2)
        /\ \A i \in 1..Len(returned) :
              (\A j \in (i + 1)..Len(returned) : returned[j].name # returned[i].name) =>
                  /\ HasOwn(heap[GlobalObject], returned[i].name)
                  /\ heap[GlobalObject].props[returned[i].name] =
                         data_descriptor(returned[i].value, returned[i].attribute)
        /\ DOMAIN heap[GlobalObject].props =
               {returned[i].name : i \in 1..Len(returned)}

C12_Witness ==
    /\ pc = "ready"
    /\ Len(returned) = Len(globals2)
    /\ returned[Len(returned)] =
           [name |-> "SyntaxError", value |-> ObjV(SyntaxErrorCtor),
            attribute |-> SyntaxErrorAttribute]
    /\ heap[GlobalObject].props["SyntaxError"] =
           data_descriptor(ObjV(SyntaxErrorCtor), SyntaxErrorAttribute)

\* C13: a built-in built with with_standard_object keeps the identity of its
\* pre-registered pair: the handle build() returns and init binds on the
\* global object is the registry's constructor, and the constructor's
\* "prototype" property is the registry's prototype, so an object that
\* referenced that prototype before init ran sees the properties init
\* installs on it.
C13_StandardObjectIdentity ==
    /\ (pc = "init" /\ Built) =>
           last.handle = standard_objects[ScriptOf(globals2[idx])[1].std].constructor
    /\ \A kind \in Scripted :
          LET std == standard_objects[ScriptOf(kind)[1].std]
          IN HasOwn(heap[GlobalObject], kind) =>
                /\ heap[GlobalObject].props[kind].value = ObjV(std.constructor)
                /\ HasOwn(heap[std.constructor], "prototype")
                /\ heap[std.constructor].props["prototype"].value = ObjV(std.prototype)
                /\ \A key \in {"name", "message", "toString"} :
                      HasOwn(heap[std.prototype], key)
    /\ (pc \in {"init", "ready"} /\ HasOwn(heap[GlobalObject], "RangeError")) =>
          /\ heap[EarlyObject].prototype = ObjV(RangeErrorProto)
          /\ ~HasOwn(heap[EarlyObject], "name")
          /\ get_field(heap, ObjV(EarlyObject), "name") = StrV("RangeError")
          /\ get_field(heap, ObjV(EarlyObject), "message") = StrV("")
          /\ get_field(heap, ObjV(EarlyObject), "toString") =
                 heap[RangeErrorProto].props["toString"].value

C13_Witness ==
    /\ pc = "ready"
    /\ heap[GlobalObject].props["RangeError"].value = ObjV(RangeErrorCtor)
    /\ heap[RangeErrorCtor].props["prototype"].value = ObjV(RangeErrorProto)
    /\ get_field(heap, ObjV(EarlyObject), "name") = StrV("RangeError")
    /\ is_object(get_field(heap, ObjV(EarlyObject), "toString"))

PrimitiveGlobals == {"undefined", "Infinity", "NaN", "globalThis"}
ErrorSubtypes == {"RangeError", "ReferenceError", "TypeError", "SyntaxError"}
ClassLike ==
    {"Function", "Object", "Array", "BigInt", "Boolean", "Date", "Map", "Number",
     "String", "RegExp", "Symbol", "Error"} \cup ErrorSubtypes
RanBefore(name, i) == \E j \in 1..(i - 1) : returned[j].name = name

\* C14: in init's run the primitive globals (undefined, Infinity, NaN,
\* globalThis) are initialized first, Function and Object before every other
\* class-like built-in, and Error's init runs before the init of each Error
\* subtype (RangeError, ReferenceError, TypeError, SyntaxError), Error and its
\* subtypes being the last entries executed.
C14_InitOrder ==
    /\ \A i \in 1..Len(returned) :
          /\ returned[i].name \in PrimitiveGlobals <=> i <= Cardinality(PrimitiveGlobals)
          /\ returned[i].name \in ClassLike \ {"Function", "Object"} =>
                RanBefore("Function", i) /\ RanBefore("Object", i)
          /\ returned[i].name \in ErrorSubtypes => RanBefore("Error", i)
          /\ returned[i].name \in ErrorSubtypes \cup {"Error"} =>
                \A j \in i..Len(returned) :
                    returned[j].name \in ErrorSubtypes \cup {"Error"}
    /\ pc # "init" =>
          {returned[i].name : i \in (Len(returned) - 4)..Len(returned)} =
              ErrorSubtypes \cup {"Error"}

C14_Witness ==
    /\ pc = "ready"
    /\ Len(returned) = 23
    /\ returned[1].name = "undefined"
    /\ returned[5].name = "Function"
    /\ returned[19].name = "Error"
    /\ returned[20].name = "RangeError"
    /\ returned[23].name = "SyntaxError"

Downcasts == {"is", "downcast_ref", "downcast_mut"}

\* C15: downcast_ref::<T>() returns a present value exactly when the object's
\* data tag is NativeObject and the stored payload's exact type is T; for any
\* other type parameter or any other tag it returns absent, and it never
\* panics; is::<T>() and downcast_mut::<T>() give the same yes/no answer.
C15_DowncastExact ==
    /\ last.op \in Downcasts =>
          /\ pc # "panic"
          /\ ret.kind \in {"yes", "no"}
          /\ ret.kind = "yes" <=>
                 /\ heap[last.handle].data.tag = "NativeObject"
                 /\ heap[last.handle].data.payload = last.kind
    /\ \A i \in DOMAIN heap, T \in DowncastTypes :
          /\ downcast_ref(heap[i], T).some <=>
                 (heap[i].data.tag = "NativeObject" /\ heap[i].data.payload = T)
          /\ is(heap[i], T) <=> downcast_ref(heap[i], T).some
          /\ downcast_mut(heap[i], T).some <=> downcast_ref(heap[i], T).some

\* downcast_ref answered yes on a native object, no on a String object asked
\* for the type of its payload
C15_Witness ==
    /\ last.op = "downcast_ref"
    /\ \/ ret.kind = "yes" /\ heap[last.handle].data = Data("NativeObject", "T")
       \/ /\ ret.kind = "no"
          /\ heap[last.handle].data.tag = "String"
          /\ last.kind = PayloadType(heap[last.handle].data)

\* C16: inherit(proto) with a value that is neither an object nor null fails
\* at once on its assertion and does not record the value: the builder's
\* inherit setting and the constructor and prototype objects are unchanged;
\* with an object or null it records the value and changes nothing else.
C16_InheritAsserts ==
    [][last'.op = "inherit" =>
          /\ heap' = heap
          /\ IF is_object(last'.args[1]) \/ is_null(last'.args[1])
             THEN /\ pc' = pc
                  /\ b' = [b EXCEPT !.inherit = SomeV(last'.args[1])]
             ELSE /\ pc' = "panic"
                  /\ b' = b]_vars

\* inherit was called with a number on a builder that had an inherit setting
C16_Witness ==
    /\ last.op = "inherit"
    /\ pc = "panic"
    /\ last.args = <<NumV(7)>>
    /\ b.inherit = SomeV(Null)

\* C17: throughout init, every builder call and build() included, at most one
\* exclusive object borrow is held at any moment: build() releases its borrow
\* of the constructor before it borrows the prototype, no borrow is held when
\* a builder call or build() returns, no object is borrowed again while its
\* borrow is held, and the global object is written only after an entry's
\* init has returned; the double-borrow failure is unreachable.
C17_OneBorrowAtATime ==
    /\ [](/\ Cardinality(borrowed) <= 1
          /\ borrowed # {} => InBuild
          /\ last.op = "build:constructor" => borrowed = {b.constructor_object}
          /\ last.op = "build:prototype" => borrowed = {b.prototype}
          /\ last.op # "BorrowMutError")
    /\ [][/\ \A h \in DOMAIN heap : heap'[h] # heap[h] => h \notin borrowed
          /\ (pc = "init" /\ heap'[GlobalObject] # heap[GlobalObject]) =>
                /\ result # NoResult
                /\ result = returned[Len(returned)]
                /\ borrowed = {} /\ borrowed' = {}]_vars

\* inside RangeError's init, build() holds the borrow of the prototype alone
C17_Witness ==
    /\ pc = "init"
    /\ last.op = "build:prototype"
    /\ b.constructor_object = RangeErrorCtor
    /\ borrowed = {RangeErrorProto}

\* C18: a built constructor is callable and constructable by default; after
\* callable(false) its is_callable() is false, after constructable(false) its
\* is_constructable() is false, the last call of each setter winning; an
\* object whose data tag is not Function is never callable or constructable.
C18_CallableConstructable ==
    /\ Built =>
          /\ is_callable(Ctor) <=>
                 (last.callableSet.some => last.callableSet.flag)
          /\ is_constructable(Ctor) <=>
                 (last.constructableSet.some => last.constructableSet.flag)
    /\ \A i \in DOMAIN heap :
          heap[i].data.tag # "Function" =>
              ~is_callable(heap[i]) /\ ~is_constructable(heap[i])

\* built after callable(false), constructable() never called
C18_Witness ==
    /\ Built
    /\ last.callableSet = [some |-> TRUE, flag |-> FALSE]
    /\ ~last.constructableSet.some
    /\ ~is_callable(Ctor)
    /\ is_constructable(Ctor)

Permanent == READONLY \cup NON_ENUMERABLE \cup PERMANENT

\* the builder's name before any name() call
InitialName(module) == IF module = "object" THEN "[object]" ELSE "[Object]"

\* C19 as stated: after build() the constructor's "length" and "name" equal the
\* length and name ever configured on the builder (0 and the default name when
\* never configured), with permanent attribute, "prototype" is the builder's
\* prototype object and the prototype's "constructor" is the constructor,
\* whatever static_property() or property() stored under those keys before.
C19_BuildOverwritesWithNameEver ==
    Built =>
        /\ Ctor.props["length"] = data_descriptor(NumV(b.length), Permanent)
        /\ Ctor.props["name"] =
               data_descriptor(StrV(IF last.named.some THEN last.named.s
                                    ELSE InitialName(b.module)), Permanent)
        /\ Ctor.props["prototype"].value = ObjV(b.prototype)
        /\ Proto.props["constructor"].value = ObjV(last.handle)

\* C19: after build() the constructor's "length" is the builder's length (0
\* when not configured) and its "name" is the name setting build() found,
\* that is the name given since the builder was created or last built, and
\* without one "[object]" in the object module and, in the builtins module,
\* "[Object]" at the first build() and the empty string at a later one; both
\* have the permanent attribute; "prototype" is the builder's prototype object
\* and the prototype's "constructor" is the constructor, whatever
\* static_property() or property() stored under those keys before.
C19_BuildOverwrites ==
    Built =>
        /\ Ctor.props["length"] = data_descriptor(NumV(b.length), Permanent)
        /\ Ctor.props["name"] =
               data_descriptor(StrV(IF last.found.some THEN last.found.s
                                    ELSE "[object]"), Permanent)
        /\ b.module = "builtins" =>
               /\ last.found.some
               /\ last.found.s \in {"[Object]", "", "Foo", "ReferenceError"}
               /\ last.found.s = "[Object]" <=> ~last.named.some /\ last.builds = 1
        /\ b.module = "object" => (last.found.some => last.found = last.named)
        /\ Ctor.props["prototype"].value = ObjV(b.prototype)
        /\ Proto.props["constructor"].value = ObjV(last.handle)

\* built with the name "Foo" after static_property("name", 7, ...) on the
\* constructor
C19_Witness ==
    /\ Built
    /\ <<"static_property", "name">> \in last.stored
    /\ last.found = SomeS("Foo")
    /\ Ctor.props["name"] = data_descriptor(StrV("Foo"), Permanent)

\* C20: build() consumes the builder's name and inherit settings, so it is not
\* idempotent: a second build() on the same builder returns the same
\* constructor handle but overwrites its "name" with the default ("[object]"
\* in the object module, the empty string in the builtins module) and resets
\* the prototype object's prototype link to the global Object prototype,
\* whatever name() and inherit() had set before the first build().
C20_SecondBuildResets ==
    (Built /\ last.previous # 0) =>
        /\ last.handle = last.previous
        /\ Ctor.props["name"].value =
               StrV(IF b.module = "object" THEN "[object]" ELSE "")
        /\ Proto.prototype = ObjV(standard_objects.object_object.prototype)
        /\ b.inherit = NoneV
        /\ b.name = IF b.module = "object" THEN NoneS ELSE SomeS("")

\* a second build() after inherit(null) and a first build()
C20_Witness ==
    /\ Built
    /\ last.previous = b.constructor_object
    /\ last.ever = SomeV(Null)
    /\ Proto.prototype = ObjV(ObjectProto)

\* C21: if stringifying the first argument fails inside the RangeError or
\* ReferenceError constructor, the constructor returns that failure value and
\* not `this`, and leaves `this` as it was: its "message" is not written and
\* its data tag is not changed to Error.
C21_FailedConversionLeavesThis ==
    [][(/\ last'.op \in {"construct", "call"}
        /\ ~last'.str
        /\ last'.kind \in {"RangeError", "ReferenceError"}
        /\ ~Stringifies(last'.args)) =>
          /\ ret'.kind = "Err"
          /\ ret'.value # this'
          /\ ret'.value.id \notin DOMAIN heap
          /\ heap'[ret'.value.id].prototype = ObjV(TypeErrorProto)
          /\ IF this'.id \in DOMAIN heap
             THEN heap'[this'.id] = heap[this'.id]
             ELSE /\ ~HasOwn(heap'[this'.id], "message")
                  /\ heap'[this'.id].data.tag = "Ordinary"]_vars

\* RangeError called on its prototype, with "message" installed by init, with
\* a symbol: the failure is returned and the prototype is not retagged
C21_Witness ==
    /\ last.op = "call"
    /\ last.kind = "RangeError"
    /\ last.args = <<SymV>>
    /\ this = ObjV(RangeErrorProto)
    /\ ret.kind = "Err"
    /\ ret.value # this
    /\ heap[this.id].data.tag # "Error"
    /\ heap[this.id].props["message"].value = StrV("")

ObjectBuilderStores ==
    {"ob_function", "ob_property", "ob_static_method", "ob_static_property"}

\* C22: ObjectBuilder::build() returns a handle to the object the builder
\* keeps, not a copy: every build() on one builder returns the same identity,
\* and what property() or function() store on the builder after a build() is
\* visible through every handle returned earlier.
C22_ObjectBuilderBuildShares ==
    /\ [](pc = "objbuilder" =>
             /\ last.handed \subseteq {ob.object}
             /\ last.op = "ob_build" =>
                    last.handle = ob.object /\ last.handed = {last.handle})
    /\ [][(pc = "objbuilder" /\ last'.op \in ObjectBuilderStores) =>
             \A h \in last.handed :
                 /\ h \in last'.handed
                 /\ HasOwn(heap'[h], last'.args[1].s)
                 /\ heap'[h] = heap'[ob'.object]
                 /\ heap'[h] # heap[h] \/ HasOwn(heap[h], last'.args[1].s)]_vars

\* function("f", ...) stored after a build(): the handle returned earlier
\* shows the new function
C22_Witness ==
    /\ pc = "objbuilder"
    /\ last.op = "ob_function"
    /\ last.args = <<StrV("f")>>
    /\ last.handed = {ob.object}
    /\ HasOwn(heap[ob.object], "f")
    /\ ~HasOwn(heap[ob.object], "message")

\* C23: every function object attached by ObjectBuilder::function,
\* ConstructorBuilder::method or ConstructorBuilder::static_method is callable
\* but not constructable and has the global Function prototype as its
\* prototype link, whatever callable() and constructable() were set to on the
\* ConstructorBuilder it was attached through.
C23_AttachedFunctionsCallable ==
    \A f \in attached :
        /\ heap[f].data.tag = "Function"
        /\ is_callable(heap[f])
        /\ ~is_constructable(heap[f])
        /\ heap[f].prototype = ObjV(standard_objects.function_object.prototype)

\* a method attached through a builder set to callable(false) and
\* constructable(false)
C23_Witness ==
    /\ pc = "builder"
    /\ last.op = "method"
    /\ last.callableSet = [some |-> TRUE, flag |-> FALSE]
    /\ last.constructableSet = [some |-> TRUE, flag |-> FALSE]
    /\ ~b.callable /\ ~b.constructable
    /\ Len(heap) \in attached
    /\ heap[b.prototype].props["toString"].value = ObjV(Len(heap))
    /\ is_callable(heap[Len(heap)])
    /\ ~is_constructable(heap[Len(heap)])

====
